---- MODULE Spec2Model ----
(***************************************************************************)
(* A model of rip8 (src/lib.rs): the CHIP-8 instruction decoder            *)
(* decode_instruction, the value types it builds (Address, Constant,       *)
(* Register, Instruction), MachineState, and the Timers countdown pair.    *)
(*                                                                         *)
(* Three specifications share the variables:                               *)
(*   Spec       a caller builds a MachineState, has a memory image with    *)
(*              one instruction word at ip, and calls decode_instruction;  *)
(*   TimerSpec  a caller builds Timers and calls Timers::update after      *)
(*              arbitrary elapsed times (the counters are loaded by the    *)
(*              executor's set-timer operations);                          *)
(*   DecaySpec  TimerSpec's operations on a one-second schedule of         *)
(*              frequent update calls.                                     *)
(***************************************************************************)
EXTENDS Integers, Sequences, FiniteSets, TLC

VARIABLES
    state,      \* the caller's MachineState value
    owner,      \* who holds the MachineState: "caller", or "dropped" once moved into a call
    memory,     \* the memory image: its length and its bytes (those not listed are 0)
    result,     \* what the last decode_instruction call produced, NoResult before
    now,        \* the monotonic clock (Instant), in nanoseconds
    timers,     \* the Timers value: delay, sound, last_update
    pre,        \* the Timers value and clock at entry of the last timer operation
    lastop,     \* the last timer operation performed
    elapsed,    \* the elapsed time the last Timers::update call measured (ns)
    calls,      \* number of timer operations performed
    start,      \* the Instant at which delay was last loaded, -1 if never
    loaded,     \* the value delay was last loaded with
    frequent    \* TRUE while every update since `start` came within one tick period

vars == <<state, owner, memory, result, now, timers, pre, lastop, elapsed, calls, start, loaded, frequent>>
machineVars == <<state, owner, memory, result>>
timerVars == <<now, timers, pre, lastop, elapsed, calls, start, loaded, frequent>>

(***************************************************************************)
(* Machine integers.                                                       *)
(***************************************************************************)
Byte == 0..255

RECURSIVE BitOr(_, _)
\* x | y on naturals, bit by bit
BitOr(x, y) ==
    IF x = 0 THEN y
    ELSE IF y = 0 THEN x
    ELSE (IF (x % 2 = 1) \/ (y % 2 = 1) THEN 1 ELSE 0) + 2 * BitOr(x \div 2, y \div 2)

RECURSIVE BitAnd(_, _)
\* x & y on naturals, bit by bit
BitAnd(x, y) ==
    IF x = 0 \/ y = 0 THEN 0
    ELSE (IF (x % 2 = 1) /\ (y % 2 = 1) THEN 1 ELSE 0) + 2 * BitAnd(x \div 2, y \div 2)

\* (x as u16) << k
Shl16(x, k) == (x * (2 ^ k)) % 65536

\* x >> k on a u8
Shr8(x, k) == x \div (2 ^ k)

(***************************************************************************)
(* Value types.                                                            *)
(***************************************************************************)
\* Address::new(x, y, z)
Address_new(x, y, z) ==
    [t |-> "Address", v |-> BitOr(BitOr(Shl16(x, 8), Shl16(y, 4)), z)]

\* Constant::new(x, y)
Constant_new(x, y) ==
    [t |-> "Constant", v |-> BitOr(Shl16(x, 4), y)]

NUM_REGISTERS == 16

\* Register::new(x): one of V0..VF, or the unimplemented!() arm
Register_new(x) ==
    IF x \in 0..15 THEN [t |-> "Register", v |-> x]
    ELSE [t |-> "Unimplemented", v |-> x]

\* A variant of enum Instruction with its operands in order
Instr(name, args) == [name |-> name, args |-> args]

\* MachineState::new()
MachineState_new ==
    [ip |-> 512, sp |-> 0, finished |-> FALSE,
     addr |-> [t |-> "Address", v |-> 0],
     registers |-> [i \in 0..(NUM_REGISTERS - 1) |-> 0]]

(***************************************************************************)
(* decode_instruction.  Each family whose arms carry guards is an operator *)
(* that yields the Instruction of the first arm whose guard holds, or      *)
(* NoMatch when the word falls through to the `_` arm.                     *)
(***************************************************************************)
NoMatch == [name |-> "NoMatch", args |-> <<>>]

\* arms `0x0 if ...`, `0x0 if ...`, `0x0`
Arm0_NoBCheck(b, c, d) ==
    IF c = 14 /\ d = 0 THEN Instr("ClearScreen", <<>>)
    ELSE IF c = 14 /\ d = 14 THEN Instr("Return", <<>>)
    ELSE Instr("SysCall", <<Address_new(b, c, d)>>)

Arm0(b, c, d) ==
    IF b = 0 /\ c = 14 /\ d = 0 THEN Instr("ClearScreen", <<>>)
    ELSE IF b = 0 /\ c = 14 /\ d = 14 THEN Instr("Return", <<>>)
    ELSE Instr("SysCall", <<Address_new(b, c, d)>>)

\* arm `0x5 if d == 0x0`
Arm5_NoGuard(b, c, d) ==
    Instr("SkipIfRegistersEqual", <<Register_new(b), Register_new(c)>>)

Arm5(b, c, d) ==
    IF d = 0 THEN Instr("SkipIfRegistersEqual", <<Register_new(b), Register_new(c)>>)
    ELSE NoMatch

\* arms `0x8 if d == ...`
Arm8(b, c, d) ==
    LET xy == <<Register_new(b), Register_new(c)>> IN
    IF d = 0 THEN Instr("SetRegister", xy)
    ELSE IF d = 1 THEN Instr("OrRegister", xy)
    ELSE IF d = 2 THEN Instr("AndRegister", xy)
    ELSE IF d = 3 THEN Instr("XorRegister", xy)
    ELSE IF d = 4 THEN Instr("AdcRegister", xy)
    ELSE IF d = 5 THEN Instr("SwbRegister", xy)
    ELSE IF d = 6 THEN Instr("ShrRegister", xy)
    ELSE IF d = 7 THEN Instr("ReverseSwbRegister", xy)
    ELSE IF d = 14 THEN Instr("ShlRegister", xy)
    ELSE NoMatch

\* arm `0x9 if d == 0x0`
Arm9(b, c, d) ==
    IF d = 0 THEN Instr("SkipIfRegistersNotEqual", <<Register_new(b), Register_new(c)>>)
    ELSE NoMatch

\* arm `0xe if c == 0x9 && d == 0xe`
ArmE(b, c, d) ==
    IF c = 9 /\ d = 14 THEN Instr("SkipIfPressed", <<Register_new(b)>>)
    ELSE NoMatch

\* the `match a` of decode_instruction: the Instruction built, or NoMatch for `_`
MatchArm(a, b, c, d) ==
    CASE a = 0 -> Arm0(b, c, d)
      [] a = 1 -> Instr("Jump", <<Address_new(b, c, d)>>)
      [] a = 2 -> Instr("Call", <<Address_new(b, c, d)>>)
      [] a = 3 -> Instr("SkipIfEqual", <<Register_new(b), Constant_new(c, d)>>)
      [] a = 4 -> Instr("SkipIfNotEqual", <<Register_new(b), Constant_new(c, d)>>)
      [] a = 5 -> Arm5(b, c, d)
      [] a = 6 -> Instr("SetImmediate", <<Register_new(b), Constant_new(c, d)>>)
      [] a = 7 -> Instr("AddImmediate", <<Register_new(b), Constant_new(c, d)>>)
      [] a = 8 -> Arm8(b, c, d)
      [] a = 9 -> Arm9(b, c, d)
      [] a = 10 -> Instr("StoreAddress", <<Address_new(b, c, d)>>)
      [] a = 11 -> Instr("JumpOffset", <<Address_new(b, c, d)>>)
      [] a = 12 -> Instr("StoreRandom", <<Register_new(b), Constant_new(c, d)>>)
      [] a = 13 -> Instr("DrawSprite", <<Register_new(b), Register_new(c), Register_new(d)>>)
      [] a = 14 -> ArmE(b, c, d)
      [] OTHER -> NoMatch

\* What a call produces: an Instruction returned to the caller, or a panic that
\* unwinds through the caller (the `_` arm's panic!, Register::new's
\* unimplemented!(), or an out-of-range index into the memory slice).
Returned(ins) == [kind |-> "ok", op |-> ins, ip |-> 0, nibbles |-> <<>>]
Panicked(why, ip, nibbles) == [kind |-> "panic", op |-> [name |-> why, args |-> <<>>], ip |-> ip, nibbles |-> nibbles]
NoResult == [kind |-> "none", op |-> NoMatch, ip |-> 0, nibbles |-> <<>>]

\* memory[i] of a slice whose unlisted bytes are zero
Index(mem, i) == IF i \in DOMAIN mem.bytes THEN mem.bytes[i] ELSE 0

\* decode_instruction(state, memory)
decode_instruction(st, mem) ==
    IF st.ip + 1 >= mem.len THEN Panicked("IndexOutOfBounds", st.ip, <<>>)
    ELSE
    LET a == Shr8(BitAnd(Index(mem, st.ip + 0), 240), 4)
        b == Shr8(BitAnd(Index(mem, st.ip + 0), 15), 0)
        c == Shr8(BitAnd(Index(mem, st.ip + 1), 240), 4)
        d == Shr8(BitAnd(Index(mem, st.ip + 1), 15), 0)
        ins == MatchArm(a, b, c, d)
    IN  IF ins = NoMatch THEN Panicked("UnknownOpcode", st.ip, <<a, b, c, d>>)
        ELSE IF \E i \in DOMAIN ins.args : ins.args[i].t = "Unimplemented"
             THEN Panicked("Unimplemented", st.ip, <<a, b, c, d>>)
        ELSE Returned(ins)

(***************************************************************************)
(* Timers.  Instants are nanoseconds on the monotonic clock.               *)
(***************************************************************************)
\* the literal update compares the measured microseconds with
THRESHOLD_MICROS == 1660

\* u16::saturating_sub
saturating_sub_Wrapping(x, n) == (x - n) % 65536

saturating_sub(x, n) == IF x >= n THEN x - n ELSE 0

\* Instant::duration_since: the time from `earlier` to `t`, zero if `earlier` is later
duration_since(t, earlier) == IF t >= earlier THEN t - earlier ELSE 0

\* Duration::subsec_micros: the fractional part of the duration, in whole microseconds
subsec_micros(d) == (d % 1000000000) \div 1000

\* Timers::new() at clock value t
Timers_new(t) == [delay |-> 0, sound |-> 0, last_update |-> t]

\* Timers::update() with Instant::now() = t
Timers_update_DelayOnly(tm, t) ==
    LET diff == duration_since(t, tm.last_update) IN
    IF subsec_micros(diff) > THRESHOLD_MICROS
    THEN [delay |-> saturating_sub(tm.delay, 1), sound |-> tm.sound, last_update |-> t]
    ELSE tm

Timers_update(tm, t) ==
    LET diff == duration_since(t, tm.last_update) IN
    IF subsec_micros(diff) > THRESHOLD_MICROS
    THEN [delay |-> saturating_sub(tm.delay, 1),
          sound |-> saturating_sub(tm.sound, 1),
          last_update |-> t]
    ELSE tm

(***************************************************************************)
(* The decoding caller.                                                    *)
(***************************************************************************)
\* length of the memory slice handed to decode_instruction
MemLen == 4096

\* a memory image, zero but for the instruction word hi lo at the load address
Image(hi, lo) ==
    [len |-> MemLen,
     bytes |-> [i \in {MachineState_new.ip, MachineState_new.ip + 1} |->
                   IF i = MachineState_new.ip THEN hi ELSE lo]]

TimersInit ==
    /\ now = 0
    /\ timers = Timers_new(0)
    /\ pre = [timers |-> Timers_new(0), now |-> 0]
    /\ lastop = "new"
    /\ elapsed = 0
    /\ calls = 0
    /\ start = -1
    /\ loaded = 0
    /\ frequent = TRUE

MachineInit ==
    /\ state = MachineState_new
    /\ owner = "caller"
    /\ result = NoResult

Init ==
    /\ MachineInit
    /\ \E hi \in Byte, lo \in Byte : memory = Image(hi, lo)
    /\ TimersInit

\* The caller passes its MachineState by value (it is neither Copy nor Clone,
\* so the value moves into the call and is dropped when the call ends) and the
\* memory by shared reference.
Decode ==
    /\ owner = "caller"
    /\ result' = decode_instruction(state, memory)
    /\ owner' = "dropped"
    /\ UNCHANGED <<state, memory>>
    /\ UNCHANGED timerVars

Next == Decode

Spec == Init /\ [][Next]_vars

(***************************************************************************)
(* The timer driver: the run loop calls update once per iteration, after   *)
(* whatever time the iteration took; the executor's Fx15 / Fx18 load the   *)
(* counters from a byte register.                                          *)
(***************************************************************************)
\* most timer operations in one behaviour
MaxCalls == 4
\* latest clock value (ns)
MaxNow == 2000000000

\* the tick period the timers are meant to decay at: 16.6 ms, in ns
TickPeriod == 16600 * 1000
\* one second, in ns
OneSecond == 1000 * 1000000

\* elapsed times (ns) between timer operations: none, the threshold's last
\* nanosecond, just over the threshold, one tick period, three tick periods
\* and a bit, exactly one second, one second and a tick period
Elapsed == {0, 1660999, 1661000, 16600000, 50000000, 1000000000, 1016600000}

\* values the executor loads from a byte register
Loads == {1, 200, 255}

\* the run loop's self.update() after dt more nanoseconds
Update(dt) ==
    /\ now' = now + dt
    /\ timers' = Timers_update(timers, now')
    /\ pre' = [timers |-> timers, now |-> now]
    /\ lastop' = "update"
    /\ elapsed' = now' - timers.last_update
    /\ calls' = calls + 1
    /\ frequent' = (frequent /\ dt <= TickPeriod)
    /\ UNCHANGED <<start, loaded>>
    /\ UNCHANGED machineVars

\* Fx15: delay timer := Vx
SetToDelay(v) ==
    /\ timers' = [timers EXCEPT !.delay = v]
    /\ pre' = [timers |-> timers, now |-> now]
    /\ lastop' = "set_delay"
    /\ calls' = calls + 1
    /\ start' = now
    /\ loaded' = v
    /\ frequent' = TRUE
    /\ UNCHANGED <<now, elapsed>>
    /\ UNCHANGED machineVars

\* Fx18: sound timer := Vx
SetToSound(v) ==
    /\ timers' = [timers EXCEPT !.sound = v]
    /\ pre' = [timers |-> timers, now |-> now]
    /\ lastop' = "set_sound"
    /\ calls' = calls + 1
    /\ UNCHANGED <<now, elapsed, start, loaded, frequent>>
    /\ UNCHANGED machineVars

TimerInit ==
    /\ MachineInit
    /\ memory = Image(0, 0)
    /\ TimersInit

TimerUpdate == \E dt \in Elapsed : calls < MaxCalls /\ dt <= MaxNow - now /\ Update(dt)
TimerSetToDelay == \E v \in Loads : calls < MaxCalls /\ SetToDelay(v)
TimerSetToSound == \E v \in Loads : calls < MaxCalls /\ SetToSound(v)

TimerNext == TimerUpdate \/ TimerSetToDelay \/ TimerSetToSound

TimerSpec == TimerInit /\ [][TimerNext]_vars

(***************************************************************************)
(* One second of decay: delay is loaded with 200 and the run loop then     *)
(* calls update every millisecond or every ten, until a second has passed. *)
(***************************************************************************)
DecaySteps == {1000000, 10000000}

DecayLoad == start = -1 /\ SetToDelay(200)
DecayUpdate == \E dt \in DecaySteps : start >= 0 /\ now + dt <= start + OneSecond /\ Update(dt)

DecayNext == DecayLoad \/ DecayUpdate

DecaySpec == TimerInit /\ [][DecayNext]_vars

(***************************************************************************)
(* The instruction set as documented: which words are valid, and the       *)
(* operation and operand values each one stands for.                       *)
(***************************************************************************)
\* the nibbles a b c d of the word at the program counter
WordA == Index(memory, state.ip) \div 16
WordB == Index(memory, state.ip) % 16
WordC == Index(memory, state.ip + 1) \div 16
WordD == Index(memory, state.ip + 1) % 16

Decoded == result.kind # "none"

\* sub-codes kk of the documented Fxkk words: 07 0A 15 18 1E 29 33 55 65
DocumentedF == {7, 10, 21, 24, 30, 41, 51, 85, 101}

\* families that need a sub-code
SubCodeFamilies == {5, 8, 9, 14, 15}

Documented(a, b, c, d) ==
    CASE a \in {5, 9} -> d = 0
      [] a = 8 -> d \in (0..7) \cup {14}
      [] a = 14 -> (c = 9 /\ d = 14) \/ (c = 10 /\ d = 1)
      [] a = 15 -> (c * 16 + d) \in DocumentedF
      [] OTHER -> TRUE

ExpectedName(a, b, c, d) ==
    CASE a = 0 -> (IF b = 0 /\ c = 14 /\ d = 0 THEN "ClearScreen"
                   ELSE IF b = 0 /\ c = 14 /\ d = 14 THEN "Return" ELSE "SysCall")
      [] a = 1 -> "Jump"
      [] a = 2 -> "Call"
      [] a = 3 -> "SkipIfEqual"
      [] a = 4 -> "SkipIfNotEqual"
      [] a = 5 -> "SkipIfRegistersEqual"
      [] a = 6 -> "SetImmediate"
      [] a = 7 -> "AddImmediate"
      [] a = 8 -> (CASE d = 0 -> "SetRegister" [] d = 1 -> "OrRegister"
                     [] d = 2 -> "AndRegister" [] d = 3 -> "XorRegister"
                     [] d = 4 -> "AdcRegister" [] d = 5 -> "SwbRegister"
                     [] d = 6 -> "ShrRegister" [] d = 7 -> "ReverseSwbRegister"
                     [] OTHER -> "ShlRegister")
      [] a = 9 -> "SkipIfRegistersNotEqual"
      [] a = 10 -> "StoreAddress"
      [] a = 11 -> "JumpOffset"
      [] a = 12 -> "StoreRandom"
      [] a = 13 -> "DrawSprite"
      [] a = 14 -> (IF c = 9 THEN "SkipIfPressed" ELSE "SkipIfNotPressed")
      [] OTHER -> (CASE c * 16 + d = 7 -> "SetFromDelay"
                     [] c * 16 + d = 10 -> "WaitKeyPress"
                     [] c * 16 + d = 21 -> "SetToDelay"
                     [] c * 16 + d = 24 -> "SetToSound"
                     [] c * 16 + d = 30 -> "AddAddress"
                     [] c * 16 + d = 41 -> "SetAddressToSprite"
                     [] c * 16 + d = 51 -> "StoreBCD"
                     [] c * 16 + d = 85 -> "StoreRegisters"
                     [] OTHER -> "LoadRegisters")

ExpectedValues(a, b, c, d) ==
    CASE a = 0 -> (IF b = 0 /\ c = 14 /\ d \in {0, 14} THEN <<>> ELSE <<b * 256 + c * 16 + d>>)
      [] a \in {1, 2, 10, 11} -> <<b * 256 + c * 16 + d>>
      [] a \in {3, 4, 6, 7, 12} -> <<b, c * 16 + d>>
      [] a \in {5, 8, 9} -> <<b, c>>
      [] a = 13 -> <<b, c, d>>
      [] OTHER -> <<b>>

\* the operand values of an Instruction, in order
Values(ins) == [i \in DOMAIN ins.args |-> ins.args[i].v]

(***************************************************************************)
(* Claims about decode_instruction, checked under Spec.                    *)
(***************************************************************************)

\* C1: every documented valid word decodes, to the matching operation with the
\* operand values packed from its nibbles.
C1_DecodeTotality ==
    (Decoded /\ Documented(WordA, WordB, WordC, WordD)) =>
        /\ result.kind = "ok"
        /\ result.op.name = ExpectedName(WordA, WordB, WordC, WordD)
        /\ Values(result.op) = ExpectedValues(WordA, WordB, WordC, WordD)

\* C2: a word that matches no documented pattern makes decode_instruction return
\* a decode-error value with the program counter and the four nibbles; the call
\* never aborts and never yields an operation.
C2_DecodeErrorReturned ==
    (Decoded /\ ~Documented(WordA, WordB, WordC, WordD)) =>
        /\ result.kind = "error"
        /\ result.ip = state.ip
        /\ result.nibbles = <<WordA, WordB, WordC, WordD>>

\* C6: a family-0 word is ClearScreen exactly for 00E0, Return exactly for 00EE,
\* and otherwise SysCall of b*256 + c*16 + d; no SysCall carries 0E0 or 0EE and
\* no family-0 word fails.
C6_Family0Dispatch ==
    (Decoded /\ WordA = 0) =>
        /\ result.kind = "ok"
        /\ (result.op.name = "ClearScreen") <=> (WordB = 0 /\ WordC = 14 /\ WordD = 0)
        /\ (result.op.name = "Return") <=> (WordB = 0 /\ WordC = 14 /\ WordD = 14)
        /\ result.op.name \in {"ClearScreen", "Return", "SysCall"}
        /\ result.op.name = "SysCall" =>
              /\ Len(result.op.args) = 1
              /\ result.op.args[1].t = "Address"
              /\ result.op.args[1].v = WordB * 256 + WordC * 16 + WordD
              /\ result.op.args[1].v \notin {224, 238}

\* C6 witness: 01E0 shares c,d with clear-screen and is decoded as SysCall 1E0
C6_Witness ==
    /\ Decoded /\ WordA = 0 /\ WordB = 1 /\ WordC = 14 /\ WordD = 0
    /\ result.kind = "ok" /\ result.op.name = "SysCall"

\* C7: in a decoded operation every Address is b*256 + c*16 + d (<= FFF), every
\* Constant is c*16 + d (<= FF), and the register operands are the first one,
\* nibble b, and the second one, nibble c, each in 0..15.
C7_OperandConstruction ==
    (Decoded /\ result.kind = "ok") =>
        \A i \in DOMAIN result.op.args :
            LET arg == result.op.args[i] IN
            /\ arg.t \in {"Address", "Constant", "Register"}
            /\ arg.t = "Address" => (arg.v = WordB * 256 + WordC * 16 + WordD /\ arg.v <= 4095)
            /\ arg.t = "Constant" => (arg.v = WordC * 16 + WordD /\ arg.v <= 255)
            /\ arg.t = "Register" =>
                  /\ arg.v \in 0..15
                  /\ (i = 1 /\ arg.v = WordB) \/ (i = 2 /\ arg.v = WordC)

\* C8: in a family that needs a sub-code, a word with an undocumented sub-code
\* never decodes to an operation.
C8_SubCodeTieBreak ==
    (Decoded /\ WordA \in SubCodeFamilies /\ ~Documented(WordA, WordB, WordC, WordD)) =>
        /\ result.kind = "panic"
        /\ result.op.name = "UnknownOpcode"

\* C8 witness: 5xy1 was decoded and failed
C8_Witness ==
    /\ Decoded /\ WordA = 5 /\ WordD = 1
    /\ result.kind = "panic"

\* other machine states and memories that agree with the current ones on the
\* two bytes at the program counter
Variants ==
    { <<[state EXCEPT !.registers = [i \in 0..(NUM_REGISTERS - 1) |-> r], !.sp = s,
                      !.addr = [t |-> "Address", v |-> ad], !.finished = f],
        [memory EXCEPT !.bytes = (state.ip + 2 :> m) @@ (state.ip - 1 :> m) @@ memory.bytes]>> :
        r \in {0, 171}, s \in {0, 3}, ad \in {0, 291}, f \in BOOLEAN, m \in {0, 255} }

\* C9: the result depends on the two bytes at the program counter only, and a
\* decode step leaves the machine state, memory and timers as they were and still
\* in the caller's hands for the next step.
C9_DecoderPurity ==
    Decoded =>
        /\ \A v \in Variants : decode_instruction(v[1], v[2]) = result
        /\ state = MachineState_new
        /\ timers = Timers_new(0)
        /\ owner = "caller"

(***************************************************************************)
(* Claims about Timers::update, checked under TimerSpec and DecaySpec.     *)
(***************************************************************************)
\* the microseconds the last update call measured
Measured == (elapsed % 1000000000) \div 1000

Max0(x) == IF x < 0 THEN 0 ELSE x

\* C3: a delay of 200, one second of frequent update calls later, is exactly 140.
C3_DecayRate ==
    (start >= 0 /\ loaded = 200 /\ frequent /\ lastop = "update" /\ now - start = OneSecond) =>
        timers.delay = 140

\* C4: an update call made when k whole tick periods have passed since the last
\* decrement takes k off both counters (saturating at 0), also for a second or
\* more, and keeps the time beyond the last whole period for the next call.
C4_OneTickPerPeriod ==
    lastop = "update" =>
        LET k == elapsed \div TickPeriod IN
        /\ timers.delay = Max0(pre.timers.delay - k)
        /\ timers.sound = Max0(pre.timers.sound - k)
        /\ timers.last_update = pre.timers.last_update + k * TickPeriod

\* C5: both counters stay within 0..255; update never raises a counter and
\* leaves a counter that is 0 at 0.
C5_TimerSaturation ==
    /\ timers.delay \in 0..255
    /\ timers.sound \in 0..255
    /\ lastop = "update" =>
          /\ timers.delay <= pre.timers.delay
          /\ timers.sound <= pre.timers.sound
          /\ pre.timers.delay = 0 => timers.delay = 0
          /\ pre.timers.sound = 0 => timers.sound = 0

\* C5 witness: a decrement step was applied while delay was 0 and sound was not
C5_Witness ==
    /\ lastop = "update"
    /\ pre.timers.delay = 0 /\ timers.delay = 0
    /\ pre.timers.sound > 0 /\ timers.sound = pre.timers.sound - 1

\* C10: an update call changes nothing when the measured time does not exceed
\* the threshold, and otherwise takes one saturating step off delay and sound
\* together and sets last_update to the current time.
C10_UpdateFrame ==
    lastop = "update" =>
        /\ Measured <= THRESHOLD_MICROS => timers = pre.timers
        /\ Measured > THRESHOLD_MICROS =>
              /\ timers.delay = Max0(pre.timers.delay - 1)
              /\ timers.sound = Max0(pre.timers.sound - 1)
              /\ timers.last_update = now
        /\ timers.delay < pre.timers.delay =>
              (timers.sound < pre.timers.sound \/ pre.timers.sound = 0)
        /\ timers.sound < pre.timers.sound =>
              (timers.delay < pre.timers.delay \/ pre.timers.delay = 0)
        /\ timers.last_update # pre.timers.last_update =>
              /\ timers.delay = Max0(pre.timers.delay - 1)
              /\ timers.sound = Max0(pre.timers.sound - 1)

\* C10 witness: both counters were running and an update stepped them together
C10_Witness ==
    /\ lastop = "update"
    /\ pre.timers.delay > 1 /\ pre.timers.sound > 1
    /\ timers.delay = pre.timers.delay - 1 /\ timers.sound = pre.timers.sound - 1
    /\ timers.last_update = now /\ now > pre.timers.last_update

====
